---------------------------- MODULE Spec2Model ----------------------------
(***************************************************************************)
(* The typing session of the typing-speed trainer (src/UI.py, TypingArea): *)
(* the one-second timer, the accuracy check and the WPM computation, with  *)
(* the Tk event loop that drives them.  Handlers run to completion on the  *)
(* single Tk thread, so each handler is one atomic action.                 *)
(*                                                                         *)
(* Texts are sequences of characters.  Floating-point values that the code *)
(* only formats with ":.2f" are kept as exact fractions <<num, den>> and   *)
(* the label holds the formatted value in hundredths (33.33 is 3333); for  *)
(* the lengths and times explored here the exact rounding and CPython's    *)
(* formatting of the double agree.                                         *)
(***************************************************************************)
EXTENDS Integers, Sequences, FiniteSets, TLC

VARIABLES
    timer_running,   \* self.timer_running
    time_elapsed,    \* self.time_elapsed
    timer_id,        \* self.timer_id: None, or the id the last after() returned
    pending,         \* Tk's scheduled after() callbacks of update_timer, by id
    input_text,      \* the text held by self.input_area
    sentence,        \* the text of sentence_display.sentence_label
    accuracy_label,  \* the value shown by self.accuracy_label, in hundredths
    timer_label,     \* the text of self.timer_label, as <<prefix, seconds>>
    wpm_label,       \* the value shown by self.wpm_label, in hundredths
    has_focus,       \* whether self.input_area holds the keyboard focus
    last             \* the event whose handler ran last (history)

vars == <<timer_running, time_elapsed, timer_id, pending, input_text, sentence,
          accuracy_label, timer_label, wpm_label, has_focus, last>>

---------------------------------------------------------------------------
(* Bounds of the exploration. *)
MaxInput == 3
MaxTime == 3
MaxPending == 2
MaxWpmTime == 60
MaxWpmInput == 5

(* self.timer_id = None: after() ids are "after#N", modelled as 1, 2, ... *)
None == 0

(* The characters typed and shown; " " is the only whitespace among them. *)
Chars == {"a", " "}

(* data.sentences: the corpus a sentence is drawn from.  The empty sentence *)
(* is the case check_accuracy guards with "if sentence else 0".            *)
sentence_list == << <<>>, <<"a">>, <<"a", " ", "a">> >>

(* random.choice(self.sentence_list): any element of the list. *)
get_random_sentence == {sentence_list[i] : i \in DOMAIN sentence_list}

---------------------------------------------------------------------------
(* f"{x:.2f}" of the fraction num/den >= 0: the nearest hundredth, a tie *)
(* going to the even one.                                                *)
Fmt2(num, den) ==
    LET q == (num * 100) \div den
        r == (num * 100) % den
    IN  IF 2 * r > den \/ (2 * r = den /\ q % 2 = 1) THEN q + 1 ELSE q

(* len(input_text.split()): the number of maximal runs of non-whitespace. *)
RECURSIVE SplitLen(_, _)
SplitLen(text, i) ==
    IF i > Len(text) THEN 0
    ELSE (IF text[i] # " " /\ (i = 1 \/ text[i - 1] = " ") THEN 1 ELSE 0)
         + SplitLen(text, i + 1)

(* The object's fields and the widgets' contents as one record, the "self" *)
(* the methods below read and return.                                      *)
Self ==
    [timer_running |-> timer_running, time_elapsed |-> time_elapsed,
     timer_id |-> timer_id, pending |-> pending, input_text |-> input_text,
     sentence |-> sentence, accuracy_label |-> accuracy_label,
     timer_label |-> timer_label, wpm_label |-> wpm_label]

(* TypingArea.__init__ with SentenceDisplay.__init__ showing sentence s0. *)
Construct(s0) ==
    [timer_running |-> FALSE, time_elapsed |-> 0, timer_id |-> None,
     pending |-> {}, input_text |-> <<>>, sentence |-> s0,
     accuracy_label |-> 10000, timer_label |-> <<"Time", 0>>,
     wpm_label |-> 0]

(* The handler's result becomes the next state. *)
Commit(s) ==
    /\ timer_running' = s.timer_running
    /\ time_elapsed' = s.time_elapsed
    /\ timer_id' = s.timer_id
    /\ pending' = s.pending
    /\ input_text' = s.input_text
    /\ sentence' = s.sentence
    /\ accuracy_label' = s.accuracy_label
    /\ timer_label' = s.timer_label
    /\ wpm_label' = s.wpm_label

(* self.after(1000, self.update_timer): Tk hands out an id no pending     *)
(* callback has.  Only equality of ids is ever observed, so the smallest  *)
(* id that is neither pending nor held in timer_id stands for it.         *)
after(s) ==
    CHOOSE i \in 1..(Cardinality(s.pending) + 2) :
        /\ i \notin s.pending
        /\ i # s.timer_id
        /\ \A j \in 1..(i - 1) : j \in s.pending \/ j = s.timer_id

(* self.after_cancel(id): the callback, if still pending, never fires;   *)
(* cancelling an id that fired or was cancelled does nothing.            *)
after_cancel(s, id) == [s EXCEPT !.pending = s.pending \ {id}]

(* calculate_wpm dividing the words by the seconds, not by the minutes. *)
calculate_wpm_per_second(s, text) ==
    IF s.time_elapsed > 0
    THEN [s EXCEPT !.wpm_label = Fmt2(SplitLen(text, 1), s.time_elapsed)]
    ELSE [s EXCEPT !.wpm_label = 0]

(* TypingArea.calculate_wpm *)
calculate_wpm(s, text) ==
    IF s.time_elapsed > 0
    THEN LET time_minutes == <<s.time_elapsed, 60>>
             words == SplitLen(text, 1)
             wpm == <<words * time_minutes[2], time_minutes[1]>>
         IN  [s EXCEPT !.wpm_label = Fmt2(wpm[1], wpm[2])]
    ELSE [s EXCEPT !.wpm_label = 0]

(* stop_timer clearing the flag and leaving the scheduled tick pending. *)
stop_timer_no_cancel(s) ==
    IF s.timer_running THEN [s EXCEPT !.timer_running = FALSE] ELSE s

(* stop_timer flipping the flag instead of clearing it. *)
stop_timer_toggle(s) ==
    LET s1 == [s EXCEPT !.timer_running = ~s.timer_running]
    IN  IF s1.timer_id # None THEN after_cancel(s1, s1.timer_id) ELSE s1

(* TypingArea.stop_timer *)
stop_timer(s) ==
    LET s1 == IF s.timer_running THEN [s EXCEPT !.timer_running = FALSE] ELSE s
    IN  IF s1.timer_id # None THEN after_cancel(s1, s1.timer_id) ELSE s1

(* TypingArea.reset_timer *)
reset_timer(s) ==
    [s EXCEPT !.timer_running = FALSE, !.time_elapsed = 0,
              !.timer_label = <<"Time", 0>>]

(* update_timer re-arming the tick outside the timer_running test. *)
update_timer_always_rearm(s) ==
    LET s2 == IF s.timer_running
              THEN calculate_wpm(
                       [s EXCEPT !.time_elapsed = s.time_elapsed + 1,
                                 !.timer_label = <<"Time Elapsed", s.time_elapsed + 1>>],
                       s.input_text)
              ELSE s
        id == after(s2)
    IN  [s2 EXCEPT !.timer_id = id, !.pending = s2.pending \cup {id}]

(* update_timer that never schedules the next tick. *)
update_timer_no_rearm(s) ==
    IF s.timer_running
    THEN calculate_wpm(
             [s EXCEPT !.time_elapsed = s.time_elapsed + 1,
                       !.timer_label = <<"Time Elapsed", s.time_elapsed + 1>>],
             s.input_text)
    ELSE s

(* TypingArea.update_timer *)
update_timer(s) ==
    IF s.timer_running
    THEN LET s1 == [s EXCEPT !.time_elapsed = s.time_elapsed + 1,
                             !.timer_label = <<"Time Elapsed", s.time_elapsed + 1>>]
             s2 == calculate_wpm(s1, s1.input_text)
             id == after(s2)
         IN  [s2 EXCEPT !.timer_id = id, !.pending = s2.pending \cup {id}]
    ELSE s

(* start_timer without the timer_running test. *)
start_timer_unguarded(s) == update_timer([s EXCEPT !.timer_running = TRUE])

(* start_timer scheduling the first update_timer a second later instead *)
(* of calling it.                                                       *)
start_timer_deferred(s) ==
    IF ~s.timer_running
    THEN LET id == after(s)
         IN  [s EXCEPT !.timer_running = TRUE, !.timer_id = id,
                       !.pending = s.pending \cup {id}]
    ELSE s

(* TypingArea.start_timer *)
start_timer(s) ==
    IF ~s.timer_running
    THEN update_timer([s EXCEPT !.timer_running = TRUE])
    ELSE s

(* The loop counting a character as correct when it occurs anywhere in the *)
(* sentence ("char in sentence") instead of at its own position.           *)
RECURSIVE CheckLoop_membership(_, _, _)
CheckLoop_membership(s, i, correct_chars) ==
    IF i > Len(s.input_text) THEN s
    ELSE LET correct == IF \E j \in 1..Len(s.sentence) : s.input_text[i] = s.sentence[j]
                        THEN correct_chars + 1 ELSE correct_chars
             accuracy_score == IF s.sentence # <<>>
                               THEN <<correct * 100, Len(s.sentence)>>
                               ELSE <<0, 1>>
             s1 == [s EXCEPT !.accuracy_label =
                                 Fmt2(accuracy_score[1], accuracy_score[2])]
             s2 == IF accuracy_score[1] = 100 * accuracy_score[2]
                   THEN calculate_wpm(stop_timer(s1), s1.input_text)
                   ELSE s1
         IN  CheckLoop_membership(s2, i + 1, correct)

(* The loop dividing the matches by the characters typed so far instead *)
(* of by the length of the sentence.                                    *)
RECURSIVE CheckLoop_over_input(_, _, _)
CheckLoop_over_input(s, i, correct_chars) ==
    IF i > Len(s.input_text) THEN s
    ELSE LET correct == IF i <= Len(s.sentence) /\ s.input_text[i] = s.sentence[i]
                        THEN correct_chars + 1 ELSE correct_chars
             accuracy_score == IF s.sentence # <<>>
                               THEN <<correct * 100, i>>
                               ELSE <<0, 1>>
             s1 == [s EXCEPT !.accuracy_label =
                                 Fmt2(accuracy_score[1], accuracy_score[2])]
             s2 == IF accuracy_score[1] = 100 * accuracy_score[2]
                   THEN calculate_wpm(stop_timer(s1), s1.input_text)
                   ELSE s1
         IN  CheckLoop_over_input(s2, i + 1, correct)

(* The body of check_accuracy's loop for i, char in enumerate(input_text), *)
(* from index i (1-based) with correct_chars matches counted so far.       *)
RECURSIVE CheckLoop(_, _, _)
CheckLoop(s, i, correct_chars) ==
    IF i > Len(s.input_text) THEN s
    ELSE LET correct == IF i <= Len(s.sentence) /\ s.input_text[i] = s.sentence[i]
                        THEN correct_chars + 1 ELSE correct_chars
             accuracy_score == IF s.sentence # <<>>
                               THEN <<correct * 100, Len(s.sentence)>>
                               ELSE <<0, 1>>
             s1 == [s EXCEPT !.accuracy_label =
                                 Fmt2(accuracy_score[1], accuracy_score[2])]
             s2 == IF accuracy_score[1] = 100 * accuracy_score[2]
                   THEN calculate_wpm(stop_timer(s1), s1.input_text)
                   ELSE s1
         IN  CheckLoop(s2, i + 1, correct)

(* TypingArea.check_accuracy *)
check_accuracy(s) == calculate_wpm(CheckLoop(s, 1, 0), s.input_text)

(* TypingArea.restart_program, display_sentence drawing new_sentence. *)
restart_program(s, new_sentence) ==
    LET s1 == reset_timer(s)
        s2 == [s1 EXCEPT !.input_text = <<>>, !.sentence = new_sentence,
                         !.accuracy_label = 10000, !.wpm_label = 0]
    IN  start_timer(s2)

---------------------------------------------------------------------------
(* The application starts: the window is built, a sentence is shown, *)
(* nothing is focused yet.                                           *)
Init ==
    /\ \E s0 \in get_random_sentence :
          /\ timer_running = Construct(s0).timer_running
          /\ time_elapsed = Construct(s0).time_elapsed
          /\ timer_id = Construct(s0).timer_id
          /\ pending = Construct(s0).pending
          /\ input_text = Construct(s0).input_text
          /\ sentence = s0
          /\ accuracy_label = Construct(s0).accuracy_label
          /\ timer_label = Construct(s0).timer_label
          /\ wpm_label = Construct(s0).wpm_label
    /\ has_focus = FALSE
    /\ last = "init"

(* The handler may run only if the elapsed time it leaves is within MaxTime. *)
InBounds(s) == s.time_elapsed <= MaxTime /\ Cardinality(s.pending) <= MaxPending

(* <FocusIn> on the input area: start_timer. *)
FocusIn ==
    /\ ~has_focus
    /\ InBounds(start_timer(Self))
    /\ Commit(start_timer(Self))
    /\ has_focus' = TRUE
    /\ last' = "FocusIn"

(* The input area loses the focus (another window, or Tab to the button); *)
(* no handler is bound to it.                                             *)
FocusOut ==
    /\ has_focus
    /\ has_focus' = FALSE
    /\ last' = "FocusOut"
    /\ UNCHANGED <<timer_running, time_elapsed, timer_id, pending, input_text,
                   sentence, accuracy_label, timer_label, wpm_label>>

(* A key press in the focused entry edits its text (Tk's Entry binding):  *)
(* a character is appended, or the last one is deleted.                   *)
KeyPress ==
    /\ has_focus
    /\ \/ \E c \in Chars :
             /\ Len(input_text) < MaxInput
             /\ input_text' = Append(input_text, c)
       \/ /\ input_text # <<>>
          /\ input_text' = SubSeq(input_text, 1, Len(input_text) - 1)
    /\ last' = "KeyPress"
    /\ UNCHANGED <<timer_running, time_elapsed, timer_id, pending, sentence,
                   accuracy_label, timer_label, wpm_label, has_focus>>

(* <KeyRelease> in the focused entry: check_accuracy. *)
KeyRelease ==
    /\ has_focus
    /\ Commit(check_accuracy(Self))
    /\ last' = "KeyRelease"
    /\ UNCHANGED has_focus

(* A scheduled callback comes due: Tk forgets it and calls update_timer. *)
Tick ==
    \E id \in pending :
        LET s == update_timer([Self EXCEPT !.pending = pending \ {id}])
        IN  /\ InBounds(s)
            /\ Commit(s)
            /\ last' = "Tick"
            /\ UNCHANGED has_focus

(* The Restart button: restart_program, which ends with focus_set(). *)
Restart ==
    \E new_sentence \in get_random_sentence :
        LET s == restart_program(Self, new_sentence)
        IN  /\ InBounds(s)
            /\ Commit(s)
            /\ has_focus' = TRUE
            /\ last' = "Restart"

Next == FocusIn \/ FocusOut \/ KeyPress \/ KeyRelease \/ Tick \/ Restart

Spec == Init /\ [][Next]_vars

(* A scheduled callback is due and its handler is within the bounds: the *)
(* states in which Tick is enabled.                                      *)
TickEnabled == pending # {} /\ (timer_running => time_elapsed < MaxTime)

(* The Tk event loop calls every scheduled callback that stays due: weak *)
(* fairness of Tick, WF_vars(Tick), with ENABLED <<Tick>>_vars written   *)
(* as the state predicate TickEnabled and a Tick step told by last.      *)
FairSpec == Spec /\ ([]<>~TickEnabled \/ []<><<last' = "Tick">>_vars)

---------------------------------------------------------------------------
(* calculate_wpm applied to any elapsed time and any typed text: the     *)
(* session has run for time_elapsed seconds (or was never started), the  *)
(* text was typed since the last tick.                                   *)
WpmInputs == UNION {[1..n -> Chars] : n \in 0..MaxWpmInput}

InitWpm ==
    /\ time_elapsed \in 0..MaxWpmTime
    /\ input_text \in WpmInputs
    /\ timer_running = (time_elapsed > 0)
    /\ timer_id = IF time_elapsed > 0 THEN 1 ELSE None
    /\ pending = IF time_elapsed > 0 THEN {1} ELSE {}
    /\ sentence \in get_random_sentence
    /\ accuracy_label = 10000
    /\ timer_label = IF time_elapsed > 0 THEN <<"Time Elapsed", time_elapsed>>
                     ELSE <<"Time", 0>>
    /\ wpm_label = 0
    /\ has_focus = (time_elapsed > 0)
    /\ last = "init"

CallWpm ==
    /\ last = "init"
    /\ Commit(calculate_wpm(Self, input_text))
    /\ last' = "calculate_wpm"
    /\ UNCHANGED has_focus

NextWpm == CallWpm

SpecWpm == InitWpm /\ [][NextWpm]_vars

---------------------------------------------------------------------------
(* Vocabulary of the properties. *)

(* The number of whitespace-delimited tokens of a text: its word ends. *)
Words(text) ==
    Cardinality({i \in 1..Len(text) :
                    text[i] # " " /\ (i = Len(text) \/ text[i + 1] = " ")})

(* words*60/t to two decimals, in hundredths; 0 when no time has elapsed. *)
ExpectedWpm(text, t) == IF t = 0 THEN 0 ELSE Fmt2(Words(text) * 60, t)

(* The length of the longest prefix of text that matches target. *)
MatchLen(text, target) ==
    Cardinality({k \in 1..Len(text) :
                    \A i \in 1..k : i <= Len(target) /\ text[i] = target[i]})

(* text is k matching characters followed by mismatching ones only. *)
MatchThenMismatch(text, target) ==
    \A i \in (MatchLen(text, target) + 1)..Len(text) :
        i > Len(target) \/ text[i] # target[i]

(* The session states of the specification. *)
Running == timer_running
Idle == ~timer_running /\ time_elapsed = 0
Stopped == ~timer_running /\ time_elapsed >= 1

---------------------------------------------------------------------------
(* C1: in every reachable state at most one scheduled tick is pending. *)
C1_AtMostOnePendingTick == Cardinality(pending) <= 1

(* C2: restart_program on a Running or Stopped session leaves it Idle: *)
(* time_elapsed = 0, timer_running = false and the input empty.        *)
C2_RestartLeavesIdle ==
    [][(last' = "Restart" /\ (Running \/ Stopped))
          => (time_elapsed' = 0 /\ ~timer_running' /\ input_text' = <<>>)]_vars

C4_OnlyRestartLeavesStopped ==
    [][(Stopped /\ last' # "Restart")
          => (~timer_running' /\ time_elapsed' = time_elapsed)]_vars

(* C5: start_timer on a Running session changes neither the timer fields *)
(* nor the pending ticks, and a start from a session that is not running *)
(* adds exactly one tick.                                                *)
C5_StartWhileRunningIsNoOp ==
    [][last' = "FocusIn"
          => IF timer_running
             THEN UNCHANGED <<timer_running, time_elapsed, timer_id, pending,
                              timer_label, wpm_label>>
             ELSE Cardinality(pending') = Cardinality(pending) + 1]_vars

(* start_timer ran on a Running session: had it started the timer anew, *)
(* the WPM shown would be the one of the current input.                 *)
C5_Witness ==
    /\ last = "FocusIn"
    /\ timer_running
    /\ Cardinality(pending) = 1
    /\ wpm_label # ExpectedWpm(input_text, time_elapsed)

(* C6: after check_accuracy, for a target of length L >= 1 and an input no *)
(* longer than it made of k matching characters followed by mismatches,    *)
(* the accuracy shown is k/L*100.                                          *)
C6_AccuracyIsMatchedOverLength ==
    (/\ last = "KeyRelease"
     /\ Len(sentence) >= 1
     /\ Len(input_text) <= Len(sentence)
     /\ MatchThenMismatch(input_text, sentence))
        => accuracy_label = Fmt2(MatchLen(input_text, sentence) * 100, Len(sentence))

(* C7: with an empty target, check_accuracy shows accuracy 0 for every *)
(* input and does not stop the timer.                                  *)
C7_EmptyTargetAccuracyZero ==
    [][(last' = "KeyRelease" /\ sentence = <<>>)
          => (accuracy_label' = 0 /\ timer_running' = timer_running)]_vars

(* C8: calculate_wpm shows words*60/time_elapsed when time_elapsed > 0 and *)
(* 0 when time_elapsed = 0; three words at 60 seconds show 3.00.           *)
C8_WpmFormula ==
    last = "calculate_wpm"
        => /\ wpm_label = ExpectedWpm(input_text, time_elapsed)
           /\ time_elapsed = 0 => wpm_label = 0
           /\ time_elapsed > 0
                 => 2 * (IF wpm_label * time_elapsed >= Words(input_text) * 6000
                         THEN wpm_label * time_elapsed - Words(input_text) * 6000
                         ELSE Words(input_text) * 6000 - wpm_label * time_elapsed)
                    <= time_elapsed
           /\ (time_elapsed = 60 /\ Words(input_text) = 3) => wpm_label = 300

(* calculate_wpm has run on three words typed in 60 seconds. *)
C8_Witness ==
    /\ last = "calculate_wpm"
    /\ time_elapsed = 60
    /\ input_text = <<"a", " ", "a", " ", "a">>
    /\ wpm_label = 300

(* C9: stop_timer twice leaves what stop_timer once leaves, and on a *)
(* session that is not running it changes nothing.                   *)
C9_StopTimerIdempotent ==
    /\ stop_timer(stop_timer(Self)) = stop_timer(Self)
    /\ ~timer_running => stop_timer(Self) = Self

(* check_accuracy called stop_timer twice: the input is the whole target *)
(* followed by one more character.                                       *)
C9_Witness ==
    /\ last = "KeyRelease"
    /\ ~timer_running
    /\ sentence # <<>>
    /\ Len(input_text) = Len(sentence) + 1
    /\ SubSeq(input_text, 1, Len(sentence)) = sentence

(* C10: a tick fired on a Running session adds 1 to time_elapsed, shows  *)
(* the WPM of the current input and leaves one new tick scheduled in the *)
(* place of the one that fired; fired on a session that is not running   *)
(* it only leaves the pending set.                                       *)
C10_TickEffect ==
    [][last' = "Tick"
          => IF timer_running
             THEN /\ time_elapsed' = time_elapsed + 1
                  /\ wpm_label' = ExpectedWpm(input_text, time_elapsed + 1)
                  /\ Cardinality(pending') = Cardinality(pending)
                  /\ timer_id' \in pending'
                  /\ timer_running'
                  /\ UNCHANGED <<input_text, sentence, accuracy_label>>
             ELSE /\ \E id \in pending : pending' = pending \ {id}
                  /\ UNCHANGED <<timer_running, time_elapsed, timer_id,
                                 input_text, sentence, accuracy_label,
                                 timer_label, wpm_label>>]_vars

(* A tick has fired on a Running session with text typed. *)
C10_Witness ==
    /\ last = "Tick"
    /\ timer_running
    /\ time_elapsed >= 2
    /\ input_text # <<>>

(* target is a prefix of text. *)
IsPrefix(target, text) ==
    /\ Len(target) <= Len(text)
    /\ \A i \in 1..Len(target) : text[i] = target[i]

(* C11: after check_accuracy, update_timer and restart_program the WPM *)
(* shown is the one of the current input and the current time_elapsed. *)
C11_WpmNeverStale ==
    last \in {"KeyRelease", "Tick", "Restart"}
        => wpm_label = ExpectedWpm(input_text, time_elapsed)

(* C12: the accuracy shown lies in [0,100] and the WPM shown is >= 0. *)
C12_AccuracyAndWpmInRange ==
    /\ accuracy_label >= 0
    /\ accuracy_label <= 10000
    /\ wpm_label >= 0

(* check_accuracy has run on an input longer than the target, with a *)
(* mismatch in it, after time has elapsed.                           *)
C12_Witness ==
    /\ last = "KeyRelease"
    /\ sentence # <<>>
    /\ Len(input_text) > Len(sentence)
    /\ accuracy_label < 10000
    /\ wpm_label > 0

(* C13: check_accuracy stops a running timer exactly when the target is *)
(* non-empty and a prefix of the input, cancelling the tick of timer_id; *)
(* it never starts the timer.                                            *)
C13_StopsIffTargetIsPrefix ==
    [][last' = "KeyRelease"
          => /\ timer_running
                  => (~timer_running'
                         <=> (sentence # <<>> /\ IsPrefix(sentence, input_text)))
             /\ (timer_running /\ ~timer_running') => timer_id' \notin pending'
             /\ ~timer_running => ~timer_running']_vars

(* check_accuracy has stopped the session on the whole one-character *)
(* target followed by one extra character.                           *)
C13_Witness ==
    /\ last = "KeyRelease"
    /\ ~timer_running
    /\ sentence = <<"a">>
    /\ input_text = <<"a", " ">>

(* C14: timer_running = true implies time_elapsed >= 1. *)
C14_RunningImpliesElapsed == timer_running => time_elapsed >= 1

(* start_timer has just started the session on the focus event: the *)
(* first increment is already made.                                 *)
C14_Witness ==
    /\ last = "FocusIn"
    /\ timer_running
    /\ time_elapsed = 1
    /\ timer_label = <<"Time Elapsed", 1>>

(* C15: timer_running = true implies a tick is pending, and under fair *)
(* delivery of the scheduled ticks a Running session at t < MaxTime    *)
(* seconds eventually shows another time_elapsed or is not running.    *)
C15_RunningNeverStalls ==
    /\ [](timer_running => (pending # {} /\ timer_id \in pending))
    /\ \A t \in 1..(MaxTime - 1) :
          (timer_running /\ time_elapsed = t)
              ~> (~timer_running \/ time_elapsed # t)

(* A Running session whose only pending tick is the one a tick re-armed. *)
C15_Witness ==
    /\ last = "Tick"
    /\ timer_running
    /\ pending = {timer_id}
    /\ time_elapsed >= 2

=============================================================================
